---- MODULE Spec2Model ----
(***************************************************************************)
(* A model of integrity_checker.py: the three click commands init, check   *)
(* and update, the YAML hash store .file_hashes.yml they share, and the    *)
(* file system they read.                                                  *)
(*                                                                         *)
(* The working directory "." holds the store, a file "a" and a directory   *)
(* "d" with a file "d/c".  Path strings are the strings str(Path(...))     *)
(* yields for paths given relative to the working directory.               *)
(*                                                                         *)
(* SHA-256 is modelled as an injective function of the content (no         *)
(* collisions): the digest of a content is the content, tagged.            *)
(***************************************************************************)
EXTENDS Integers, Sequences, FiniteSets, TLC

VARIABLES fs, out, hist, written, pc, loc, lastSave

vars == <<fs, out, hist, written, pc, loc, lastSave>>

(***************************************************************************)
(* Bounds.                                                                 *)
(***************************************************************************)
\* user file contents are the byte strings 0..MaxData (0 is the empty file)
MaxData == 1
\* how deep a store document may nest the digest of an earlier store document
MaxDepth == 1

(***************************************************************************)
(* Paths.                                                                  *)
(***************************************************************************)
HASH_FILE == ".file_hashes.yml"

Root == "."

UserFiles == {"a", "d/c"}

FileNodes == UserFiles \cup {HASH_FILE}

Nodes == {Root, "d"} \cup FileNodes

\* the path arguments a command is called with
Args == Nodes

Parent(n) == IF n = "d/c" THEN "d" ELSE Root

(***************************************************************************)
(* Contents, the serialised store, digests.                                *)
(***************************************************************************)
EmptyMap == [k \in {} |-> 0]

\* a file holding the byte string n; 0 is the empty file
Bytes(n) == [t |-> "bytes", b |-> n, map |-> EmptyMap]

\* yaml.dump(hashes, f): the document that holds the mapping m
Dump(m) == [t |-> "yaml", b |-> 0, map |-> m]

\* hashlib.sha256 over the whole content, hexdigest
Sha256(data) == [sha |-> data]

Max(a, b) == IF a >= b THEN a ELSE b

RECURSIVE Depth(_)
Depth(data) ==
    IF data.t = "bytes" THEN 0
    ELSE LET m == data.map
             RECURSIVE Deepest(_)
             Deepest(S) ==
                 IF S = {} THEN 0
                 ELSE LET k == CHOOSE x \in S : TRUE
                      IN  Max(Depth(m[k].sha), Deepest(S \ {k}))
         IN  1 + Deepest(DOMAIN m)

(***************************************************************************)
(* The file system.                                                        *)
(***************************************************************************)
Absent == [kind |-> "none", data |-> Bytes(0), readable |-> FALSE]

DirEnt == [kind |-> "dir", data |-> Bytes(0), readable |-> TRUE]

FileEnt(data, r) == [kind |-> "file", data |-> data, readable |-> r]

\* Path.is_file()
is_file(f, p) == f[p].kind = "file"

\* Path.is_dir()
is_dir(f, p) == f[p].kind = "dir"

\* Path.rglob('*'): every existing path below p, directories included
rglob(f, p) ==
    {n \in Nodes \ {Root} :
        /\ f[n].kind # "none"
        /\ \/ p = Root
           \/ Parent(n) = p}

\* the regular files the walk of init and check keeps
WalkFiles(f, p) == {n \in rglob(f, p) : is_file(f, n)}

\* calculate_file_hash: open(file_path, "rb") raises on an unreadable file
CanHash(f, p) == is_file(f, p) /\ f[p].readable

\* mutant: sha256_hash.update is never called, the digest is that of no bytes
calculate_file_hash_noupdate(f, p) == Sha256(Bytes(0))

calculate_file_hash(f, p) == Sha256(f[p].data)

\* load_stored_hashes: yaml.safe_load raises on a document that is no YAML
LoadOk(f) ==
    \/ ~is_file(f, HASH_FILE)
    \/ f[HASH_FILE].data.t = "yaml"
    \/ f[HASH_FILE].data.b = 0

load_stored_hashes(f) ==
    IF is_file(f, HASH_FILE) /\ f[HASH_FILE].data.t = "yaml"
    THEN f[HASH_FILE].data.map
    ELSE EmptyMap

\* mutant: save re-reads the document and merges into it
save_hashes_merge(f, hashes) ==
    [f EXCEPT ![HASH_FILE] =
        FileEnt(Dump(hashes @@ load_stored_hashes(f)), TRUE)]

\* save_hashes: open(HASH_FILE, 'w') and yaml.dump
save_hashes(f, hashes) ==
    [f EXCEPT ![HASH_FILE] = FileEnt(Dump(hashes), TRUE)]

(***************************************************************************)
(* The commands, as functions of the file system they start from.          *)
(* status: "ok" the command ran to its end, "rejected" update printed its  *)
(* error message and returned, "abort" an exception left the command.      *)
(***************************************************************************)
\* init, lines 44-49: the files whose hash is stored
InitScan(f, path) ==
    IF is_file(f, path) THEN {path}
    ELSE IF is_dir(f, path) THEN WalkFiles(f, path)
    ELSE {}

\* mutant: init starts from the stored mapping, as update does
init_merge(f, path) ==
    LET scanned == InitScan(f, path)
        stored_hashes == [p \in scanned |-> calculate_file_hash(f, p)]
    IN  IF \E p \in scanned : ~CanHash(f, p)
        THEN [fs |-> f, status |-> "abort"]
        ELSE [fs |-> save_hashes(f, stored_hashes @@ load_stored_hashes(f)),
              status |-> "ok"]

\* mutant: init opens the store for writing before it hashes
init_open_first(f, path) ==
    LET scanned == InitScan(f, path)
        stored_hashes == [p \in scanned |-> calculate_file_hash(f, p)]
    IN  IF \E p \in scanned : ~CanHash(f, p)
        THEN [fs |-> [f EXCEPT ![HASH_FILE] = FileEnt(Bytes(0), TRUE)],
              status |-> "abort"]
        ELSE [fs |-> save_hashes(f, stored_hashes), status |-> "ok"]

\* mutant: init rejects a path that is neither a file nor a directory
init_reject_missing(f, path) ==
    LET scanned == InitScan(f, path)
        stored_hashes == [p \in scanned |-> calculate_file_hash(f, p)]
    IN  IF ~is_file(f, path) /\ ~is_dir(f, path)
        THEN [fs |-> f, status |-> "rejected"]
        ELSE IF \E p \in scanned : ~CanHash(f, p)
        THEN [fs |-> f, status |-> "abort"]
        ELSE [fs |-> save_hashes(f, stored_hashes), status |-> "ok"]

init(f, path) ==
    LET scanned == InitScan(f, path)
        stored_hashes == [p \in scanned |-> calculate_file_hash(f, p)]
    IN  IF \E p \in scanned : ~CanHash(f, p)
        THEN [fs |-> f, status |-> "abort"]
        ELSE [fs |-> save_hashes(f, stored_hashes), status |-> "ok"]

\* mutant: the stored digest is read with .get, a missing entry is a mismatch
check_single_file_get(f, stored_hashes, p) ==
    IF p \in DOMAIN stored_hashes /\ ~CanHash(f, p) THEN "raise"
    ELSE IF p \in DOMAIN stored_hashes /\ calculate_file_hash(f, p) = stored_hashes[p]
    THEN "Unmodified"
    ELSE "Modified"

\* check.check_single_file: the status echoed, or "raise" when hashing fails
check_single_file(f, stored_hashes, p) ==
    IF p \notin DOMAIN stored_hashes THEN "Unknown"
    ELSE IF ~CanHash(f, p) THEN "raise"
    ELSE IF calculate_file_hash(f, p) = stored_hashes[p] THEN "Unmodified"
    ELSE "Modified"

\* the files check visits
CheckScan(f, path) ==
    IF is_file(f, path) THEN {path}
    ELSE IF is_dir(f, path) THEN WalkFiles(f, path)
    ELSE {}

\* check, visiting the files in the order the directory walk yields them
check(f, path, order) ==
    IF ~LoadOk(f) THEN [status |-> "abort", lines |-> <<>>]
    ELSE
    LET stored_hashes == load_stored_hashes(f)
        st == [i \in 1..Len(order) |-> check_single_file(f, stored_hashes, order[i])]
        bad == {i \in 1..Len(order) : st[i] = "raise"}
        n == IF bad = {} THEN Len(order)
             ELSE (CHOOSE i \in bad : \A j \in bad : i <= j) - 1
    IN  [status |-> IF bad = {} THEN "ok" ELSE "abort",
         lines |-> [i \in 1..n |-> [path |-> order[i], status |-> st[i]]]]

\* mutant: update starts from an empty mapping, as init does
update_replace(f, path) ==
    IF ~is_file(f, path) THEN [fs |-> f, status |-> "rejected"]
    ELSE IF ~LoadOk(f) \/ ~CanHash(f, path) THEN [fs |-> f, status |-> "abort"]
    ELSE [fs |-> save_hashes(f, (path :> calculate_file_hash(f, path))),
          status |-> "ok"]

\* mutant: update tests path.exists() instead of path.is_file()
update_exists(f, path) ==
    IF f[path].kind = "none" THEN [fs |-> f, status |-> "rejected"]
    ELSE IF ~LoadOk(f) \/ ~CanHash(f, path) THEN [fs |-> f, status |-> "abort"]
    ELSE [fs |-> save_hashes(f, (path :> calculate_file_hash(f, path))
                                   @@ load_stored_hashes(f)),
          status |-> "ok"]

update(f, path) ==
    IF ~is_file(f, path) THEN [fs |-> f, status |-> "rejected"]
    ELSE IF ~LoadOk(f) \/ ~CanHash(f, path) THEN [fs |-> f, status |-> "abort"]
    ELSE [fs |-> save_hashes(f, (path :> calculate_file_hash(f, path))
                                   @@ load_stored_hashes(f)),
          status |-> "ok"]

(***************************************************************************)
(* State.                                                                  *)
(*   fs       the file system: Nodes -> entry                              *)
(*   out      what the command that just ran did, until its process       *)
(*            exits; Idle between two commands                             *)
(*   hist     the last init that ran to its end and what changed since     *)
(*   written  the path strings init or update ever stored                  *)
(*   pc, loc, lastSave   the two concurrent update processes (SpecConc)    *)
(***************************************************************************)
Idle == [cmd |-> "none", arg |-> Root, status |-> "ok", lines |-> <<>>]

NoHist == [arg |-> "-", kind |-> "none", tracked |-> {}, prior |-> {},
           changed |-> {}]

Procs == {"p1", "p2"}

\* the file each concurrent update is given
Target(p) == IF p = "p1" THEN "a" ELSE "d/c"

NoLoc == [loaded |-> EmptyMap, stored |-> EmptyMap, status |-> "none"]

TypeFs(f) ==
    /\ f[Root] = DirEnt
    /\ f["d"] \in {Absent, DirEnt}
    /\ \A n \in UserFiles :
          \/ f[n] = Absent
          \/ is_dir(f, Parent(n)) /\ f[n] \in {FileEnt(Bytes(c), r) :
                                                c \in 0..MaxData, r \in BOOLEAN}

Init ==
    /\ fs \in {f \in [Nodes -> {Absent, DirEnt} \cup
                        {FileEnt(Bytes(c), r) : c \in 0..MaxData, r \in BOOLEAN}] :
                  TypeFs(f) /\ f[HASH_FILE] = Absent}
    /\ out = Idle
    /\ hist = NoHist
    /\ written = {}
    /\ pc = [p \in Procs |-> "idle"]
    /\ loc = [p \in Procs |-> NoLoc]
    /\ lastSave = "none"

StoreDepthOk(f) == is_file(f, HASH_FILE) => Depth(f[HASH_FILE].data) <= MaxDepth

kindOf(f, p) == f[p].kind

\* all orders in which a directory walk can yield the files of S
Orders(S) == {o \in [1..Cardinality(S) -> S] : \A i, j \in DOMAIN o : o[i] = o[j] => i = j}

CmdInit(path) ==
    LET r == init(fs, path)
    IN  /\ out = Idle
        /\ StoreDepthOk(r.fs)
        /\ fs' = r.fs
        /\ out' = [cmd |-> "init", arg |-> path, status |-> r.status, lines |-> <<>>]
        /\ IF r.status = "ok"
           THEN /\ hist' = [arg |-> path, kind |-> kindOf(fs, path),
                            tracked |-> DOMAIN load_stored_hashes(r.fs),
                            prior |-> DOMAIN load_stored_hashes(fs),
                            changed |-> {}]
                /\ written' = written \cup DOMAIN load_stored_hashes(r.fs)
           ELSE UNCHANGED <<hist, written>>
        /\ UNCHANGED <<pc, loc, lastSave>>

CmdCheck(path) ==
    \E order \in Orders(CheckScan(fs, path)) :
        LET r == check(fs, path, order)
        IN  /\ out = Idle
            /\ out' = [cmd |-> "check", arg |-> path, status |-> r.status,
                       lines |-> r.lines]
            /\ UNCHANGED <<fs, hist, written, pc, loc, lastSave>>

CmdUpdate(path) ==
    LET r == update(fs, path)
    IN  /\ out = Idle
        /\ StoreDepthOk(r.fs)
        /\ fs' = r.fs
        /\ out' = [cmd |-> "update", arg |-> path, status |-> r.status, lines |-> <<>>]
        /\ IF r.status = "ok"
           THEN /\ hist' = NoHist
                /\ written' = written \cup {path}
           ELSE UNCHANGED <<hist, written>>
        /\ UNCHANGED <<pc, loc, lastSave>>

\* the command's process exits
Exit ==
    /\ out # Idle
    /\ out' = Idle
    /\ UNCHANGED <<fs, hist, written, pc, loc, lastSave>>

(***************************************************************************)
(* Changes made to the files between two commands by anything else.        *)
(***************************************************************************)
\* the content of one existing file changed, nothing else
ContentChanged(n) ==
    IF hist.arg # "-" /\ hist.changed = {}
    THEN [hist EXCEPT !.changed = {n}]
    ELSE NoHist

EnvWrite(n, c) ==
    /\ out = Idle
    /\ is_dir(fs, Parent(n))
    /\ fs[n].kind # "dir"
    /\ is_file(fs, n) => fs[n].data # Bytes(c)
    /\ fs' = [fs EXCEPT ![n] = FileEnt(Bytes(c), IF is_file(fs, n) THEN fs[n].readable ELSE TRUE)]
    /\ hist' = IF is_file(fs, n) THEN ContentChanged(n) ELSE NoHist
    /\ out' = Idle
    /\ lastSave' = IF n = HASH_FILE THEN "none" ELSE lastSave
    /\ UNCHANGED <<written, pc, loc>>

EnvDelete(n) ==
    /\ out = Idle
    /\ is_file(fs, n)
    /\ fs' = [fs EXCEPT ![n] = Absent]
    /\ hist' = NoHist
    /\ out' = Idle
    /\ UNCHANGED <<written, pc, loc, lastSave>>

EnvChmod(n) ==
    /\ out = Idle
    /\ is_file(fs, n)
    /\ fs' = [fs EXCEPT ![n].readable = ~fs[n].readable]
    /\ hist' = NoHist
    /\ out' = Idle
    /\ UNCHANGED <<written, pc, loc, lastSave>>

EnvMkdir ==
    /\ out = Idle
    /\ fs["d"] = Absent
    /\ fs' = [fs EXCEPT !["d"] = DirEnt]
    /\ hist' = NoHist
    /\ out' = Idle
    /\ UNCHANGED <<written, pc, loc, lastSave>>

EnvRmdir ==
    /\ out = Idle
    /\ is_dir(fs, "d")
    /\ fs' = [fs EXCEPT !["d"] = Absent, !["d/c"] = Absent]
    /\ hist' = NoHist
    /\ out' = Idle
    /\ UNCHANGED <<written, pc, loc, lastSave>>

Env ==
    \/ \E n \in FileNodes, c \in 0..MaxData : EnvWrite(n, c)
    \/ \E n \in FileNodes : EnvDelete(n)
    \/ \E n \in UserFiles : EnvChmod(n)
    \/ EnvMkdir
    \/ EnvRmdir

Next ==
    \/ \E path \in Args : CmdInit(path)
    \/ \E path \in Args : CmdCheck(path)
    \/ \E path \in Args : CmdUpdate(path)
    \/ Exit
    \/ Env

Spec == Init /\ [][Next]_vars

(***************************************************************************)
(* Two processes, each running update on its own file against the same     *)
(* store, with no lock: update's statements are the steps.                 *)
(*   pc[p]   "idle", "load", "hash", "save", "done"                        *)
(*   loc[p]  loaded: what load_stored_hashes returned; stored: the         *)
(*           process's stored_hashes; status: how its command ended        *)
(*   lastSave  the process whose save_hashes ran last                      *)
(***************************************************************************)
\* update, lines 85-88
UStart(p) ==
    /\ pc[p] = "idle"
    /\ IF is_file(fs, Target(p))
       THEN /\ pc' = [pc EXCEPT ![p] = "load"]
            /\ loc' = [loc EXCEPT ![p] = NoLoc]
       ELSE /\ pc' = [pc EXCEPT ![p] = "done"]
            /\ loc' = [loc EXCEPT ![p] = [NoLoc EXCEPT !.status = "rejected"]]
    /\ UNCHANGED <<fs, out, hist, written, lastSave>>

\* update, line 90
ULoad(p) ==
    /\ pc[p] = "load"
    /\ IF LoadOk(fs)
       THEN /\ pc' = [pc EXCEPT ![p] = "hash"]
            /\ loc' = [loc EXCEPT ![p].loaded = load_stored_hashes(fs),
                                  ![p].stored = load_stored_hashes(fs)]
       ELSE /\ pc' = [pc EXCEPT ![p] = "done"]
            /\ loc' = [loc EXCEPT ![p].status = "abort"]
    /\ UNCHANGED <<fs, out, hist, written, lastSave>>

\* update, line 91
UHash(p) ==
    /\ pc[p] = "hash"
    /\ IF CanHash(fs, Target(p))
       THEN /\ pc' = [pc EXCEPT ![p] = "save"]
            /\ loc' = [loc EXCEPT ![p].stored =
                          (Target(p) :> calculate_file_hash(fs, Target(p))) @@ @]
       ELSE /\ pc' = [pc EXCEPT ![p] = "done"]
            /\ loc' = [loc EXCEPT ![p].status = "abort"]
    /\ UNCHANGED <<fs, out, hist, written, lastSave>>

\* update, lines 92-93
USave(p) ==
    /\ pc[p] = "save"
    /\ fs' = save_hashes(fs, loc[p].stored)
    /\ pc' = [pc EXCEPT ![p] = "done"]
    /\ loc' = [loc EXCEPT ![p].status = "ok"]
    /\ lastSave' = p
    /\ UNCHANGED <<out, hist, written>>

\* the process is started again with the same argument
UAgain(p) ==
    /\ pc[p] = "done"
    /\ pc' = [pc EXCEPT ![p] = "idle"]
    /\ loc' = [loc EXCEPT ![p] = NoLoc]
    /\ UNCHANGED <<fs, out, hist, written, lastSave>>

\* files change while the two processes run
ConcEnv == \E n \in FileNodes, c \in 0..MaxData : EnvWrite(n, c)

NextConc ==
    \/ \E p \in Procs : UStart(p)
    \/ \E p \in Procs : ULoad(p)
    \/ \E p \in Procs : UHash(p)
    \/ \E p \in Procs : USave(p)
    \/ \E p \in Procs : UAgain(p)
    \/ ConcEnv

SpecConc == Init /\ [][NextConc]_vars

(***************************************************************************)
(* What the claims observe.                                                *)
(***************************************************************************)
\* the mapping the persisted document holds (empty when there is none)
Snapshot(f) ==
    IF f[HASH_FILE].kind = "file" /\ f[HASH_FILE].data.t = "yaml"
    THEN f[HASH_FILE].data.map
    ELSE EmptyMap

\* the regular files at or below path p
FilesAt(f, p) ==
    IF f[p].kind = "file" THEN {p}
    ELSE IF f[p].kind = "dir"
         THEN {n \in FileNodes : f[n].kind = "file" /\ (p = Root \/ Parent(n) = p)}
         ELSE {}

\* the step is command c given path a, started in the unprimed state
Ran(c) == out = Idle /\ out'.cmd = c

\* the statuses the finished check printed for file n, in order
StatusesOf(n) ==
    LET RECURSIVE Pick(_)
        Pick(i) == IF i > Len(out.lines) THEN <<>>
                   ELSE IF out.lines[i].path = n
                        THEN <<out.lines[i].status>> \o Pick(i + 1)
                        ELSE Pick(i + 1)
    IN  Pick(1)

(***************************************************************************)
(* C1: after init(P) on a regular file or a directory runs to its end, the *)
(* persisted mapping has exactly the keys P (a file) or the regular files  *)
(* found recursively under P (a directory), each with the digest of the    *)
(* content the file had when it was hashed; every earlier entry outside    *)
(* this scan is gone.                                                      *)
(***************************************************************************)
InitReplacesStore ==
    [][(Ran("init") /\ out'.status = "ok" /\ fs[out'.arg].kind \in {"file", "dir"})
        => /\ fs'[HASH_FILE].kind = "file"
           /\ fs'[HASH_FILE].data.t = "yaml"
           /\ DOMAIN Snapshot(fs') = FilesAt(fs, out'.arg)
           /\ \A n \in FilesAt(fs, out'.arg) : Snapshot(fs')[n] = Sha256(fs[n].data)]_vars

\* an init of a directory has just dropped an entry the store held before
InitDroppedEntry ==
    /\ out.cmd = "init" /\ out.status = "ok"
    /\ hist.kind = "dir"
    /\ hist.tracked # {}
    /\ hist.prior \ hist.tracked # {}

(***************************************************************************)
(* C4: update(A) on a regular file A that runs to its end is a single-key  *)
(* upsert: the persisted mapping is the one persisted before, except that  *)
(* A maps to the digest of A's content; no other key is added, dropped or  *)
(* changed.                                                                *)
(***************************************************************************)
UpdateUpserts ==
    [][(Ran("update") /\ out'.status = "ok")
        => /\ fs'[HASH_FILE].kind = "file"
           /\ fs'[HASH_FILE].data.t = "yaml"
           /\ DOMAIN Snapshot(fs') = DOMAIN Snapshot(fs) \cup {out'.arg}
           /\ Snapshot(fs')[out'.arg] = Sha256(fs[out'.arg].data)
           /\ \A k \in DOMAIN Snapshot(fs) \ {out'.arg} :
                 Snapshot(fs')[k] = Snapshot(fs)[k]]_vars

\* an update has just run on a store that holds another file's entry
UpdateKeptOther ==
    /\ out.cmd = "update" /\ out.status = "ok"
    /\ \E k \in DOMAIN Snapshot(fs) : k # out.arg

(***************************************************************************)
(* C5: update(P) where P is a directory or does not exist prints the error *)
(* message and returns, without raising, and leaves every file, the store  *)
(* included, as it was: the store is not loaded (a malformed store does    *)
(* not make the command fail), not written and not created.                *)
(***************************************************************************)
UpdateRejects ==
    [][(Ran("update") /\ fs[out'.arg].kind # "file")
        => out'.status = "rejected" /\ fs' = fs]_vars

\* update was given a directory while the store is malformed
UpdateRejectedDir ==
    /\ out.cmd = "update" /\ out.status = "rejected"
    /\ fs[out.arg].kind = "dir"
    /\ fs[HASH_FILE].kind = "file" /\ fs[HASH_FILE].data.t = "bytes"
    /\ fs[HASH_FILE].data.b > 0

(***************************************************************************)
(* C6: check prints exactly one status for every regular file it visits:   *)
(* Unknown iff the path is no key of the store, Unmodified iff it is a key *)
(* and the file's digest equals the stored one, Modified iff it is a key   *)
(* and the digests differ; a path init or update never stored is Unknown.  *)
(* (check changes no file, so the state holds the files it read.)          *)
(***************************************************************************)
CheckClassifies ==
    out.cmd = "check" =>
        /\ \A i \in 1..Len(out.lines) :
              LET n == out.lines[i].path
                  st == out.lines[i].status
              IN  /\ n \in FilesAt(fs, out.arg)
                  /\ Len(StatusesOf(n)) = 1
                  /\ st \in {"Unknown", "Unmodified", "Modified"}
                  /\ st = "Unknown" <=> n \notin DOMAIN Snapshot(fs)
                  /\ st = "Unmodified" <=>
                        (n \in DOMAIN Snapshot(fs) /\ Snapshot(fs)[n] = Sha256(fs[n].data))
                  /\ st = "Modified" <=>
                        (n \in DOMAIN Snapshot(fs) /\ Snapshot(fs)[n] # Sha256(fs[n].data))
                  /\ n \notin written => st = "Unknown"
        /\ out.status = "ok" =>
              \A n \in FilesAt(fs, out.arg) : Len(StatusesOf(n)) = 1

\* one check of a directory has printed all three statuses
CheckPrintedAllThree ==
    /\ out.cmd = "check" /\ out.status = "ok"
    /\ \A st \in {"Unknown", "Unmodified", "Modified"} :
          \E i \in 1..Len(out.lines) : out.lines[i].status = st
    /\ \E i \in 1..Len(out.lines) : out.lines[i].path \notin written

(***************************************************************************)
(* C7: the persisted document changes only in the save that ends an init   *)
(* or an update: check never writes, creates or deletes it, and an init or *)
(* update that does not reach its save (it aborts on an I/O error while    *)
(* hashing, or update rejects its path) leaves it as it was.               *)
(***************************************************************************)
StoreChangesOnlyAtSave ==
    [][(out = Idle /\ out' # Idle /\ fs'[HASH_FILE] # fs[HASH_FILE])
        => out'.cmd \in {"init", "update"} /\ out'.status = "ok"]_vars

\* an init has just aborted while the store holds entries
InitAbortedOnStore ==
    /\ out.cmd = "init" /\ out.status = "abort"
    /\ DOMAIN Snapshot(fs) # {}

(***************************************************************************)
(* C8: every entry of the persisted mapping was written by an init or an   *)
(* update at a moment when its key was the path of a regular file and its  *)
(* value the digest of that file's content: a step that adds an entry or   *)
(* changes its digest is such a step, whatever happened to the files       *)
(* before it.                                                              *)
(***************************************************************************)
EntriesWereFiles ==
    [][\A k \in DOMAIN Snapshot(fs') :
          (k \notin DOMAIN Snapshot(fs) \/ Snapshot(fs')[k] # Snapshot(fs)[k])
          => /\ out = Idle /\ out'.cmd \in {"init", "update"} /\ out'.status = "ok"
             /\ fs[k].kind = "file"
             /\ Snapshot(fs')[k] = Sha256(fs[k].data)]_vars

\* the store holds an entry for a path that is no longer a regular file
EntryOutlivedFile ==
    \E k \in DOMAIN Snapshot(fs) : fs[k].kind # "file"

(***************************************************************************)
(* C2: init(D) on a directory D, then at once check(D) with no file        *)
(* changed by anything but the tool, prints Unmodified for every regular   *)
(* file check finds under D, the working directory that holds the store    *)
(* included.                                                               *)
(***************************************************************************)
InitThenCheckUnmodified ==
    (out.cmd = "check" /\ hist.arg = out.arg /\ hist.kind = "dir" /\ hist.changed = {})
    => /\ out.status = "ok"
       /\ \A n \in FilesAt(fs, out.arg) : StatusesOf(n) = <<"Unmodified">>

\* what the code does keep: every file but the store itself is Unmodified
InitThenCheckUnmodifiedButStore ==
    (out.cmd = "check" /\ hist.arg = out.arg /\ hist.kind = "dir" /\ hist.changed = {})
    => /\ out.status = "ok"
       /\ \A n \in FilesAt(fs, out.arg) \ {HASH_FILE} : StatusesOf(n) = <<"Unmodified">>

(***************************************************************************)
(* C3: after init(D) on a directory D, when the content of exactly one     *)
(* file A tracked by that init changed and nothing else did, check(D)      *)
(* prints Modified for A and Unmodified for every other file that init     *)
(* tracked.                                                                *)
(***************************************************************************)
ChangeDetected ==
    (/\ out.cmd = "check" /\ hist.arg = out.arg /\ hist.kind = "dir"
     /\ hist.changed # {} /\ hist.changed \subseteq hist.tracked)
    => /\ out.status = "ok"
       /\ \A n \in hist.tracked :
             StatusesOf(n) = IF n \in hist.changed THEN <<"Modified">>
                             ELSE <<"Unmodified">>

\* what the code does keep: the claim, when that init did not track the store
ChangeDetectedButStore ==
    (/\ out.cmd = "check" /\ hist.arg = out.arg /\ hist.kind = "dir"
     /\ hist.changed # {} /\ hist.changed \subseteq hist.tracked
     /\ HASH_FILE \notin hist.tracked)
    => /\ out.status = "ok"
       /\ \A n \in hist.tracked :
             StatusesOf(n) = IF n \in hist.changed THEN <<"Modified">>
                             ELSE <<"Unmodified">>

(***************************************************************************)
(* C10: init(P) where P is neither a regular file nor a directory is not   *)
(* rejected: it reports success and overwrites the store with the empty    *)
(* mapping, and a check that follows prints Unknown for every file it      *)
(* visits, the files tracked before included.                              *)
(***************************************************************************)
InitMissingEmptiesStore ==
    /\ [][(Ran("init") /\ fs[out'.arg].kind = "none")
           => /\ out'.status = "ok"
              /\ fs'[HASH_FILE].kind = "file"
              /\ fs'[HASH_FILE].data.t = "yaml"
              /\ DOMAIN Snapshot(fs') = {}]_vars
    /\ []((out.cmd = "check" /\ hist.arg # "-" /\ hist.kind = "none" /\ hist.changed = {})
           => /\ out.status = "ok"
              /\ \A n \in FilesAt(fs, out.arg) : StatusesOf(n) = <<"Unknown">>)

\* after an init of a missing path, check has printed a status for a file
\* that was tracked before that init
CheckAfterInitMissing ==
    /\ out.cmd = "check" /\ hist.arg # "-" /\ hist.kind = "none" /\ hist.changed = {}
    /\ \E i \in 1..Len(out.lines) : out.lines[i].path \in hist.prior

(***************************************************************************)
(* C9: with no lock, the save that ran last wins: once a process's update  *)
(* has saved and no save followed, the persisted mapping is exactly what   *)
(* that process loaded plus its own entry, so an entry another process     *)
(* saved between that load and that save is lost although both updates     *)
(* reported success.                                                       *)
(***************************************************************************)
LastSaveWins ==
    \A p \in Procs :
        (lastSave = p /\ pc[p] = "done" /\ loc[p].status = "ok")
        => /\ fs[HASH_FILE].kind = "file"
           /\ fs[HASH_FILE].data.t = "yaml"
           /\ DOMAIN Snapshot(fs) = DOMAIN loc[p].loaded \cup {Target(p)}
           /\ \A k \in DOMAIN loc[p].loaded \ {Target(p)} :
                 Snapshot(fs)[k] = loc[p].loaded[k]
           /\ Snapshot(fs)[Target(p)] = loc[p].stored[Target(p)]

\* both updates reported success and the entry of the first to save is gone
LostUpdate ==
    \E p, q \in Procs :
        /\ p # q
        /\ pc[p] = "done" /\ loc[p].status = "ok"
        /\ pc[q] = "done" /\ loc[q].status = "ok"
        /\ lastSave = q
        /\ Target(p) \notin DOMAIN Snapshot(fs)

====
